---- MODULE Spec2Model ----
(***************************************************************************)
(* A model of zsh's curses module, Src/Modules/curses.c: the window        *)
(* registry (zcurses_windows), the color-pair cache (zcurses_colorpairs,   *)
(* next_cp, zc_color_phase), the attribute and scroll handlers and the key *)
(* decoder of `zcurses input', as driven through the builtin bin_zcurses.  *)
(*                                                                         *)
(* C strings whose characters the code inspects (attr tokens) are          *)
(* sequences of units; window names are TLA+ strings, of which the code    *)
(* only tests emptiness and equality.  A LinkNode is the index of the node *)
(* in the list, NULL is 0.  Each curses library call returns OK or ERR by  *)
(* a choice of the environment; a call that returns ERR has no effect.     *)
(***************************************************************************)
EXTENDS Integers, Sequences, FiniteSets, TLC

VARIABLES
    zcurses_windows,     \* LinkList of struct zc_win, in list order
    zcurses_colorpairs,  \* HashTable: [null |-> it is NULL, node |-> name -> colorpair]
    zc_errno,            \* last error of zcurses_validate_window
    zc_color_phase,      \* 0, 1 (first colorset must allocate) or 2
    next_cp,             \* short: last color pair number tried
    saved_tty_state,     \* tty mode captured before initscr()
    curses_tty_state,    \* tty mode captured after cbreak(), noecho()
    shttyinfo,           \* the shell's own record of the tty mode
    tty,                 \* the terminal's current mode
    curses_wins,         \* library: WINDOW objects, indexed by handle
    curses_pairs,        \* library: pair number -> <<f, b>> as set by init_pair
    curses_rejected,     \* library: init_pair has returned ERR for a pair below COLOR_PAIRS
    params,              \* shell parameters set by setsparam / setaparam
    last,                \* the last zcurses command: its verb, window argument, status, warnings
    module,              \* "booted", "crashed" (the process died) or "cleaned" (after cleanup_)
    have_wget_wch,       \* the build: HAVE_WGET_WCH is defined
    key_f0_named         \* the build: curses_keys.h has an entry for KEY_F0

vars == <<zcurses_windows, zcurses_colorpairs, zc_errno, zc_color_phase, next_cp,
          saved_tty_state, curses_tty_state, shttyinfo, tty, curses_wins,
          curses_pairs, curses_rejected, params, last, module, have_wget_wch,
          key_f0_named>>

registry == <<zcurses_windows, curses_wins>>
colors == <<zcurses_colorpairs, zc_color_phase, next_cp, curses_pairs, curses_rejected>>
ttys == <<saved_tty_state, curses_tty_state, shttyinfo, tty>>
build == <<have_wget_wch, key_f0_named>>

(***************************************************************************)
(* Bounds of the model.                                                    *)
(***************************************************************************)
\* window handles the library hands out (initscr and newwin together)
MaxHandles == 4
\* tokens in one `zcurses attr' command
MaxTokens == 2
\* color pairs of the platform (the library's COLOR_PAIRS)
COLOR_PAIRS == 3
\* allocation attempts past COLOR_PAIRS that the model follows
MaxOverrun == 2

(***************************************************************************)
(* Constants of the program.                                               *)
(***************************************************************************)
ZCWF_PERMANENT == 1
ZCWF_SCROLL == 2
ZCURSES_EINVALID == 1
ZCURSES_EDEFINED == 2
ZCURSES_EUNDEFINED == 3
ZCURSES_UNUSED == 1
ZCURSES_USED == 2
ZCURSES_ATTRON == 1
ZCURSES_ATTROFF == 2
\* <curses.h>: the code of function key 0
KEY_F0 == 264

\* flags & f
HasFlag(flags, f) == (flags \div f) % 2 = 1
\* flags |= f
SetFlag(flags, f) == IF HasFlag(flags, f) THEN flags ELSE flags + f
\* flags &= ~f
ClearFlag(flags, f) == IF HasFlag(flags, f) THEN flags - f ELSE flags

\* short arithmetic: the value of a 16-bit two's complement short
ToShort(n) == ((n + 32768) % 65536) - 32768

\* a variant that counts the messages from the first error
strerror_shifted(err) ==
    LET errs == <<"unknown error", "window name invalid",
                  "window already defined", "window undefined">>
    IN errs[IF err < 1 \/ err > 3 THEN 1 ELSE err]

zcurses_strerror(err) ==
    LET errs == <<"unknown error", "window name invalid",
                  "window already defined", "window undefined">>
    IN errs[(IF err < 1 \/ err > 3 THEN 0 ELSE err) + 1]

\* a variant that does not compare the names
getwindowbyname_any(name) == IF zcurses_windows = <<>> THEN 0 ELSE 1

zcurses_getwindowbyname(name) ==
    LET hits == {i \in 1..Len(zcurses_windows) : zcurses_windows[i].name = name}
    IN IF hits = {} THEN 0 ELSE CHOOSE i \in hits : \A j \in hits : i <= j

\* a variant that takes the two criteria for each other
validate_window_swapped(win, criteria) ==
    IF win = "" THEN [node |-> 0, zc_errno |-> ZCURSES_EINVALID]
    ELSE LET target == zcurses_getwindowbyname(win) IN
         IF target # 0 /\ HasFlag(criteria, ZCURSES_USED)
         THEN [node |-> 0, zc_errno |-> ZCURSES_EDEFINED]
         ELSE IF target = 0 /\ HasFlag(criteria, ZCURSES_UNUSED)
         THEN [node |-> 0, zc_errno |-> ZCURSES_EUNDEFINED]
         ELSE [node |-> target, zc_errno |-> 0]

zcurses_validate_window(win, criteria) ==
    IF win = "" THEN [node |-> 0, zc_errno |-> ZCURSES_EINVALID]
    ELSE LET target == zcurses_getwindowbyname(win) IN
         IF target # 0 /\ HasFlag(criteria, ZCURSES_UNUSED)
         THEN [node |-> 0, zc_errno |-> ZCURSES_EDEFINED]
         ELSE IF target = 0 /\ HasFlag(criteria, ZCURSES_USED)
         THEN [node |-> 0, zc_errno |-> ZCURSES_EUNDEFINED]
         ELSE [node |-> target, zc_errno |-> 0]

\* A WINDOW as initscr() or newwin() returns it
NewWINDOW == [live |-> TRUE, scroll |-> FALSE, attrs |-> {}, pair |-> 0, keypad |-> FALSE]
\* What is left of a WINDOW after delwin()
DeadWINDOW == [live |-> FALSE, scroll |-> FALSE, attrs |-> {}, pair |-> 0, keypad |-> FALSE]

\* remnode(list, node)
remnode(list, node) == SubSeq(list, 1, node - 1) \o SubSeq(list, node + 1, Len(list))

\* a variant that puts the node first
insert_firstnode(list, w) == <<w>> \o list

\* zinsertlinknode(list, lastnode(list), w)
insert_lastnode(list, w) == Append(list, w)

\* what the command was and what it gave: the verb, the window argument, the
\* arguments after it, the status returned, the warnings printed and, for
\* `zcurses input', the value of keypadnum at its return (-1 otherwise)
ReportKey(cmd, win, args, ret, diag, keypadnum) ==
    last' = [cmd |-> cmd, win |-> win, args |-> args, ret |-> ret, diag |-> diag,
             keypadnum |-> keypadnum]

Report(cmd, win, args, ret, diag) == ReportKey(cmd, win, args, ret, diag, -1)

\* a variant that makes no such test
NeverBeforeInit == FALSE

\* bin_zcurses: the test made before every handler but init and end
BeforeInit == zcurses_getwindowbyname("stdscr") = 0

\* bin_zcurses: the command is refused before `zcurses init'
Refused(cmd, win, args) ==
    /\ Report(cmd, win, args, 1, <<"can't be used before `zcurses init'">>)
    /\ UNCHANGED <<registry, colors, ttys, zc_errno, params, module>>

\* the warning of a handler whose window argument did not validate
BadWindow(cmd, win, args, v) ==
    /\ zc_errno' = v.zc_errno
    /\ Report(cmd, win, args, 1, <<zcurses_strerror(v.zc_errno)>>)
    /\ UNCHANGED <<registry, colors, ttys, params, module>>

\* a variant that looks for the permanent window under the name curscr
init_curscr_win == zcurses_getwindowbyname("curscr")

\* zccmd_init: LinkNode stdscr_win = zcurses_getwindowbyname("stdscr")
init_stdscr_win == zcurses_getwindowbyname("stdscr")

zccmd_init(initscr_ok, start_color_ok) ==
    LET stdscr_win == init_stdscr_win IN
    IF stdscr_win = 0
    THEN IF ~initscr_ok
         THEN /\ saved_tty_state' = tty
              /\ Report("init", "", <<>>, 1, <<>>)
              /\ UNCHANGED <<registry, colors, curses_tty_state, shttyinfo, tty,
                             zc_errno, params, module>>
         ELSE /\ Len(curses_wins) < MaxHandles
              /\ saved_tty_state' = tty
              /\ curses_wins' = Append(curses_wins, NewWINDOW)
              /\ zcurses_windows' =
                     insert_lastnode(zcurses_windows,
                                     [win |-> Len(curses_wins) + 1, name |-> "stdscr",
                                      flags |-> ZCWF_PERMANENT])
              /\ IF start_color_ok
                 THEN /\ zc_color_phase' = IF zc_color_phase = 0 THEN 1 ELSE zc_color_phase
                      /\ zcurses_colorpairs' = [null |-> FALSE, node |-> <<>>]
                 ELSE UNCHANGED <<zc_color_phase, zcurses_colorpairs>>
              /\ tty' = "cbreak noecho"
              /\ curses_tty_state' = "cbreak noecho"
              /\ Report("init", "", <<>>, 0, <<>>)
              /\ UNCHANGED <<next_cp, curses_pairs, curses_rejected, shttyinfo,
                             zc_errno, params, module>>
    ELSE /\ tty' = curses_tty_state
         /\ Report("init", "", <<>>, 0, <<>>)
         /\ UNCHANGED <<registry, colors, saved_tty_state, curses_tty_state, shttyinfo,
                        zc_errno, params, module>>

\* a variant that puts the window into the registry all the same, without a handle
newwin_failed_registers(name) ==
    /\ Report("addwin", name, <<>>, 1, <<>>)
    /\ zcurses_windows' = Append(zcurses_windows, [win |-> 0, name |-> name, flags |-> 0])
    /\ UNCHANGED curses_wins

\* zccmd_addwin: newwin() returned NULL
newwin_failed(name) ==
    /\ Report("addwin", name, <<>>, 1, <<>>)
    /\ UNCHANGED registry

\* a variant that lets every name through
NeverRejected(v) == FALSE

\* zccmd_addwin: zcurses_validate_window(...) == NULL && zc_errno
AddwinRejected(v) == v.node = 0 /\ v.zc_errno # 0

zccmd_addwin(name, newwin_ok) ==
    LET v == zcurses_validate_window(name, ZCURSES_UNUSED) IN
    IF AddwinRejected(v)
    THEN BadWindow("addwin", name, <<>>, v)
    ELSE /\ zc_errno' = v.zc_errno
         /\ IF ~newwin_ok
            THEN newwin_failed(name)
            ELSE /\ Len(curses_wins) < MaxHandles
                 /\ curses_wins' = Append(curses_wins, NewWINDOW)
                 /\ zcurses_windows' =
                        insert_lastnode(zcurses_windows,
                                        [win |-> Len(curses_wins) + 1, name |-> name,
                                         flags |-> 0])
                 /\ Report("addwin", name, <<>>, 0, <<>>)
         /\ UNCHANGED <<colors, ttys, params, module>>

\* a variant that unlinks the entry all the same
delwin_failed_unlinks(name, node) ==
    /\ Report("delwin", name, <<>>, 1, <<>>)
    /\ zcurses_windows' = remnode(zcurses_windows, node)
    /\ UNCHANGED curses_wins

\* zccmd_delwin: delwin() did not return OK
delwin_failed(name, node) ==
    /\ Report("delwin", name, <<>>, 1, <<>>)
    /\ UNCHANGED registry

\* a variant that lets every window be deleted
CanAlwaysBeDeleted(w) == FALSE

\* w->flags & ZCWF_PERMANENT, the test of zccmd_delwin
CantBeDeleted(w) == HasFlag(w.flags, ZCWF_PERMANENT)

zccmd_delwin(name, delwin_ok) ==
    LET v == zcurses_validate_window(name, ZCURSES_USED) IN
    IF v.node = 0
    THEN BadWindow("delwin", name, <<>>, v)
    ELSE LET w == zcurses_windows[v.node] IN
         /\ zc_errno' = v.zc_errno
         /\ IF CantBeDeleted(w)
            THEN /\ Report("delwin", name, <<>>, 1, <<"window can't be deleted">>)
                 /\ UNCHANGED registry
            ELSE IF ~delwin_ok
            THEN delwin_failed(name, v.node)
            ELSE /\ curses_wins' = [curses_wins EXCEPT ![w.win] = DeadWINDOW]
                 /\ zcurses_windows' = remnode(zcurses_windows, v.node)
                 /\ Report("delwin", name, <<>>, 0, <<>>)
         /\ UNCHANGED <<colors, ttys, params, module>>

\* a variant that restores the terminal whether or not a session was started
zccmd_endwin_unguarded ==
    /\ tty' = saved_tty_state
    /\ shttyinfo' = saved_tty_state
    /\ Report("end", "", <<>>, 0, <<>>)
    /\ UNCHANGED <<registry, colors, saved_tty_state, curses_tty_state, zc_errno,
                   params, module>>

zccmd_endwin ==
    LET stdscr_win == zcurses_getwindowbyname("stdscr") IN
    /\ IF stdscr_win # 0
       THEN /\ tty' = saved_tty_state
            /\ shttyinfo' = saved_tty_state
       ELSE UNCHANGED <<tty, shttyinfo>>
    /\ Report("end", "", <<>>, 0, <<>>)
    /\ UNCHANGED <<registry, colors, saved_tty_state, curses_tty_state, zc_errno,
                   params, module>>

\* A handler that validates its window and makes one library call on it
window_command(cmd, name, call_ok) ==
    LET v == zcurses_validate_window(name, ZCURSES_USED) IN
    IF v.node = 0
    THEN BadWindow(cmd, name, <<>>, v)
    ELSE /\ zc_errno' = v.zc_errno
         /\ Report(cmd, name, <<>>, IF call_ok THEN 0 ELSE 1, <<>>)
         /\ UNCHANGED <<registry, colors, ttys, params, module>>

\* args is <<>> (refresh curscr) or <<name>>
zccmd_refresh(args, wrefresh_ok) ==
    IF args # <<>>
    THEN window_command("refresh", args[1], wrefresh_ok)
    ELSE /\ Report("refresh", "", <<>>, IF wrefresh_ok THEN 0 ELSE 1, <<>>)
         /\ UNCHANGED <<registry, colors, ttys, zc_errno, params, module>>

zccmd_move(name, wmove_ok) == window_command("move", name, wmove_ok)

\* how is <<>> (werase) or <<word>>
zccmd_clear(name, how, call_ok) ==
    LET v == zcurses_validate_window(name, ZCURSES_USED) IN
    IF v.node = 0
    THEN BadWindow("clear", name, how, v)
    ELSE /\ zc_errno' = v.zc_errno
         /\ IF how = <<>> \/ how[1] \in {"redraw", "eol", "bot"}
            THEN Report("clear", name, how, IF call_ok THEN 0 ELSE 1, <<>>)
            ELSE Report("clear", name, how, 1, <<"`clear' expects `redraw', `eol' or `bot'">>)
         /\ UNCHANGED <<registry, colors, ttys, params, module>>

zccmd_char(name, call_ok) == window_command("char", name, call_ok)

zccmd_string(name, waddstr_ok) == window_command("string", name, waddstr_ok)

zccmd_border(name, wborder_ok) == window_command("border", name, wborder_ok)

\* setaparam(array, the six numbers of the window)
zccmd_position(name, array, getyx_ok) ==
    LET v == zcurses_validate_window(name, ZCURSES_USED) IN
    IF v.node = 0
    THEN BadWindow("position", name, <<array>>, v)
    ELSE /\ zc_errno' = v.zc_errno
         /\ IF getyx_ok
            THEN /\ params' = (array :> <<"yx begyx maxyx", zcurses_windows[v.node].win>>)
                              @@ params
                 /\ Report("position", name, <<array>>, 0, <<>>)
            ELSE /\ Report("position", name, <<array>>, 1, <<>>)
                 /\ UNCHANGED params
         /\ UNCHANGED <<registry, colors, ttys, module>>

(***************************************************************************)
(* zccmd_scroll.  The mode argument is a sequence of characters.           *)
(***************************************************************************)
Digits == <<"0", "1", "2", "3", "4", "5", "6", "7", "8", "9">>
IsDigit(c) == \E d \in 1..10 : Digits[d] = c
DigitValue(c) == (CHOOSE d \in 1..10 : Digits[d] = c) - 1

\* the digits of s from position i on: [val, end] with end the first position not read
RECURSIVE zstrtol_digits(_, _, _)
zstrtol_digits(s, i, acc) ==
    IF i <= Len(s) /\ IsDigit(s[i])
    THEN zstrtol_digits(s, i + 1, acc * 10 + DigitValue(s[i]))
    ELSE [val |-> acc, end |-> i]

RECURSIVE skip_blanks(_, _)
skip_blanks(s, i) == IF i <= Len(s) /\ s[i] = " " THEN skip_blanks(s, i + 1) ELSE i

\* zstrtol(s, &endptr, 10): blanks, an optional sign, decimal digits
zstrtol(s) ==
    LET b == skip_blanks(s, 1)
        neg == b <= Len(s) /\ s[b] = "-"
        d == IF b <= Len(s) /\ s[b] \in {"-", "+"} THEN b + 1 ELSE b
        r == zstrtol_digits(s, d, 0)
    IN [val |-> IF neg THEN 0 - r.val ELSE r.val, endptr |-> r.end]

\* scrollok(win, bf) on window h with the library's answer ok
scrollok(wins, h, bf, ok) == IF ok THEN [wins EXCEPT ![h].scroll = bf] ELSE wins

\* a variant without the second scrollok
scroll_lines_norestore(wins, w, scrollok_ok) ==
    IF ~HasFlag(w.flags, ZCWF_SCROLL)
    THEN scrollok(wins, w.win, TRUE, scrollok_ok)
    ELSE wins

\* the integer branch of zccmd_scroll: scrollok(TRUE) unless the flag is set,
\* wscrl, scrollok(FALSE) unless the flag is set
scroll_lines(wins, w, scrollok_ok) ==
    LET t == IF ~HasFlag(w.flags, ZCWF_SCROLL)
             THEN scrollok(wins, w.win, TRUE, scrollok_ok)
             ELSE wins
    IN IF ~HasFlag(w.flags, ZCWF_SCROLL)
       THEN scrollok(t, w.win, FALSE, scrollok_ok)
       ELSE t

\* a variant that leaves the flags as they are
flags_kept(flags) == flags

\* w->flags &= ~ZCWF_SCROLL
flags_scroll_off(flags) == ClearFlag(flags, ZCWF_SCROLL)

\* scrollok_ok: whether the library accepts scrollok() on this window, which does
\* not change between the calls of one command; wscrl_ok: the answer of wscrl()
zccmd_scroll(name, mode, scrollok_ok, wscrl_ok) ==
    LET v == zcurses_validate_window(name, ZCURSES_USED) IN
    IF v.node = 0
    THEN BadWindow("scroll", name, <<mode>>, v)
    ELSE LET w == zcurses_windows[v.node] IN
         /\ zc_errno' = v.zc_errno
         /\ IF mode = <<"o", "n">>
            THEN IF ~scrollok_ok
                 THEN /\ Report("scroll", name, <<mode>>, 1, <<>>)
                      /\ UNCHANGED registry
                 ELSE /\ curses_wins' = scrollok(curses_wins, w.win, TRUE, TRUE)
                      /\ zcurses_windows' =
                             [zcurses_windows EXCEPT
                                 ![v.node].flags = SetFlag(w.flags, ZCWF_SCROLL)]
                      /\ Report("scroll", name, <<mode>>, 0, <<>>)
            ELSE IF mode = <<"o", "f", "f">>
            THEN IF ~scrollok_ok
                 THEN /\ Report("scroll", name, <<mode>>, 1, <<>>)
                      /\ UNCHANGED registry
                 ELSE /\ curses_wins' = scrollok(curses_wins, w.win, FALSE, TRUE)
                      /\ zcurses_windows' =
                             [zcurses_windows EXCEPT
                                 ![v.node].flags = flags_scroll_off(w.flags)]
                      /\ Report("scroll", name, <<mode>>, 0, <<>>)
            ELSE IF zstrtol(mode).endptr <= Len(mode)
            THEN /\ Report("scroll", name, <<mode>>, 1, <<"scroll requires `on', `off' or integer">>)
                 /\ UNCHANGED registry
            ELSE /\ curses_wins' = scroll_lines(curses_wins, w, scrollok_ok)
                 /\ Report("scroll", name, <<mode>>, IF wscrl_ok THEN 0 ELSE 1, <<>>)
                 /\ UNCHANGED zcurses_windows
         /\ UNCHANGED <<colors, ttys, params, module>>

(***************************************************************************)
(* zccmd_attr, zcurses_attribute, zcurses_color, zcurses_colorset.         *)
(* A token is a sequence of units: a sign, a slash or a word.              *)
(***************************************************************************)
zcurses_attributes ==
    <<[name |-> <<"blink">>, number |-> "A_BLINK"],
      [name |-> <<"bold">>, number |-> "A_BOLD"],
      [name |-> <<"dim">>, number |-> "A_DIM"],
      [name |-> <<"reverse">>, number |-> "A_REVERSE"],
      [name |-> <<"standout">>, number |-> "A_STANDOUT"],
      [name |-> <<"underline">>, number |-> "A_UNDERLINE"]>>

zcurses_colors ==
    <<[name |-> <<"black">>, number |-> 0],
      [name |-> <<"red">>, number |-> 1],
      [name |-> <<"green">>, number |-> 2],
      [name |-> <<"yellow">>, number |-> 3],
      [name |-> <<"blue">>, number |-> 4],
      [name |-> <<"magenta">>, number |-> 5],
      [name |-> <<"cyan">>, number |-> 6],
      [name |-> <<"white">>, number |-> 7]>>

\* strchr(s, c): the position of the first c in s, 0 for NULL
strchr(s, c) ==
    LET hits == {i \in 1..Len(s) : s[i] = c}
    IN IF hits = {} THEN 0 ELSE CHOOSE i \in hits : \A j \in hits : i <= j

\* the first entry of a name/number table with this name, 0 when there is none
table_find(table, name) ==
    LET hits == {i \in 1..Len(table) : table[i].name = name}
    IN IF hits = {} THEN 0 ELSE CHOOSE i \in hits : \A j \in hits : i <= j

\* zcurses_attribute(w, attr, op) on the WINDOW win: [ret, win]
zcurses_attribute(win, attr, op) ==
    LET zca == table_find(zcurses_attributes, attr) IN
    IF zca = 0 THEN [ret |-> 1, win |-> win]
    ELSE [ret |-> 0,
          win |-> IF op = ZCURSES_ATTRON
                  THEN [win EXCEPT !.attrs = @ \cup {zcurses_attributes[zca].number}]
                  ELSE IF op = ZCURSES_ATTROFF
                  THEN [win EXCEPT !.attrs = @ \ {zcurses_attributes[zca].number}]
                  ELSE win]

zcurses_color(color) ==
    LET zc == table_find(zcurses_colors, color) IN
    IF zc = 0 THEN -1 ELSE zcurses_colors[zc].number

\* gethashnode(zcurses_colorpairs, colorpair) finds a node
Cached(st, colorpair) == colorpair \in DOMAIN st.colorpairs.node

\* a variant that never looks a pair up
AlwaysAllocate(st, colorpair) == TRUE

\* whether zcurses_colorset takes the branch that allocates a pair
MustAllocate(st, colorpair) == st.phase = 1 \/ ~Cached(st, colorpair)

\* the value of next_cp after ++next_cp
IncrementCp(cp) == ToShort(cp + 1)

\* a variant that lets the pair numbered COLOR_PAIRS be defined
OutOfPairsLate(cp) == cp > COLOR_PAIRS

\* next_cp >= COLOR_PAIRS, the test made before init_pair()
OutOfPairs(cp) == cp >= COLOR_PAIRS

\* a variant that leaves zc_color_phase as it is
StayInPhase(st) == st

\* a variant that sets zc_color_phase back to 1
ReenterPhase(st) == [st EXCEPT !.phase = 1]

\* zc_color_phase = 2, on entering the branch that allocates
EnterAllocation(st) == [st EXCEPT !.phase = 2]

\* init_pair(pair, f, b) of the library: ok is its answer for a pair it can
\* define; a pair below 1 it refuses
init_pair(pair, ok) == ok /\ pair >= 1

(* zcurses_colorset(nam, w, colorpair) on the state st, a record of the      *)
(* variables the attr loop changes, for the WINDOW h.  e.init_pair_ok and    *)
(* e.wcolor_set_ok are the library's answers.  With zcurses_colorpairs NULL  *)
(* gethashnode dereferences a null pointer: e.null_deref is what the process *)
(* then does, "SIGSEGV" or the value the call happens to return.             *)
zcurses_colorset(st, h, colorpair, e) ==
    IF st.phase # 1 /\ st.colorpairs.null
    THEN IF e.null_deref = "SIGSEGV"
         THEN [st EXCEPT !.killed = TRUE]
         ELSE [st EXCEPT !.ret = IF e.null_deref = "1" THEN 1 ELSE st.ret]
    ELSE IF MustAllocate(st, colorpair)
    THEN LET st2 == EnterAllocation(st)
             bg == strchr(colorpair, "/")
             cp == SubSeq(colorpair, 1, bg - 1)
             f == zcurses_color(cp)
             b == zcurses_color(SubSeq(colorpair, bg + 1, Len(colorpair)))
             ncp == IncrementCp(st.next_cp)
         IN IF bg = 0 THEN [st2 EXCEPT !.ret = 1]
            ELSE IF f = -1 \/ b = -1
            THEN [st2 EXCEPT !.ret = 1,
                      !.diag = @ \o (IF f = -1 THEN <<"foreground color not known">>
                                     ELSE <<>>)
                                 \o (IF b = -1 THEN <<"background color not known">>
                                     ELSE <<>>)]
            ELSE IF OutOfPairs(ncp)
            THEN [st2 EXCEPT !.ret = 1, !.next_cp = ncp]
            ELSE IF ~init_pair(ncp, e.init_pair_ok)
            THEN [st2 EXCEPT !.ret = 1, !.next_cp = ncp, !.rejected = TRUE]
            ELSE [st2 EXCEPT
                     !.next_cp = ncp,
                     !.pairs = (ncp :> <<f, b>>) @@ @,
                     !.colorpairs.node = (colorpair :> ncp) @@ @,
                     !.wins[h].pair = IF e.wcolor_set_ok THEN ncp ELSE @,
                     !.ret = IF e.wcolor_set_ok THEN @ ELSE 1]
    ELSE [st EXCEPT
             !.wins[h].pair = IF e.wcolor_set_ok THEN st.colorpairs.node[colorpair] ELSE @,
             !.ret = IF e.wcolor_set_ok THEN @ ELSE 1]

\* one token of the loop of zccmd_attr
attr_token(st, h, tok, e) ==
    IF strchr(tok, "/") # 0
    THEN zcurses_colorset(st, h, tok, e)
    ELSE LET signed == tok # <<>> /\ tok[1] \in {"-", "+"}
             onoff == IF tok # <<>> /\ tok[1] = "-" THEN ZCURSES_ATTROFF ELSE ZCURSES_ATTRON
             ptr == IF signed THEN Tail(tok) ELSE tok
             r == zcurses_attribute(st.wins[h], ptr, onoff)
         IN IF r.ret # 0
            THEN [st EXCEPT !.ret = 1, !.diag = Append(@, "attribute not known")]
            ELSE [st EXCEPT !.wins[h] = r.win]

\* for(attrs = args+1; *attrs; attrs++): env[i] is the library's part in token i
RECURSIVE attr_loop(_, _, _, _)
attr_loop(st, h, attrs, env) ==
    IF attrs = <<>> \/ st.killed THEN st
    ELSE attr_loop(attr_token(st, h, Head(attrs), Head(env)), h, Tail(attrs), Tail(env))

zccmd_attr(name, attrs, env) ==
    LET v == zcurses_validate_window(name, ZCURSES_USED) IN
    IF v.node = 0
    THEN BadWindow("attr", name, attrs, v)
    ELSE LET st == [colorpairs |-> zcurses_colorpairs, phase |-> zc_color_phase,
                    next_cp |-> next_cp, pairs |-> curses_pairs,
                    rejected |-> curses_rejected, wins |-> curses_wins,
                    ret |-> 0, diag |-> <<>>, killed |-> FALSE]
             end == attr_loop(st, zcurses_windows[v.node].win, attrs, env)
         IN /\ zc_errno' = v.zc_errno
            /\ zcurses_colorpairs' = end.colorpairs
            /\ zc_color_phase' = end.phase
            /\ next_cp' = end.next_cp
            /\ curses_pairs' = end.pairs
            /\ curses_rejected' = end.rejected
            /\ curses_wins' = end.wins
            /\ module' = IF end.killed THEN "crashed" ELSE module
            /\ Report("attr", name, attrs, IF end.killed THEN -1 ELSE end.ret, end.diag)
            /\ UNCHANGED <<zcurses_windows, ttys, params>>

(***************************************************************************)
(* zccmd_input.  Text is a sequence of bytes.                              *)
(***************************************************************************)
\* zsh.h: the byte that quotes the next one
Meta == 131

\* c ^ 32 on a byte
Xor32(c) == IF (c \div 32) % 2 = 1 THEN c - 32 ELSE c + 32

\* ztype.h, inittyptab: NUL, Meta, the tokens and Marker need quoting
imeta(c) == c = 0 \/ (c >= 131 /\ c <= 162)

\* metafy(buf, len, META_NOALLOC)
RECURSIVE metafy(_)
metafy(buf) ==
    IF buf = <<>> THEN <<>>
    ELSE (IF imeta(Head(buf)) THEN <<Meta, Xor32(Head(buf))>> ELSE <<Head(buf)>>)
         \o metafy(Tail(buf))

\* curses_keys.h: the names of the keypad keys, KEY_F0 apart
named_keys ==
    <<[name |-> "DOWN", number |-> 258],
      [name |-> "UP", number |-> 259],
      [name |-> "LEFT", number |-> 260],
      [name |-> "RIGHT", number |-> 261],
      [name |-> "HOME", number |-> 262],
      [name |-> "BACKSPACE", number |-> 263],
      [name |-> "NPAGE", number |-> 338],
      [name |-> "PPAGE", number |-> 339]>>

\* curses_keys.h: the table of this build
keypad_names ==
    IF key_f0_named THEN Append(named_keys, [name |-> "F0", number |-> KEY_F0])
    ELSE named_keys

\* the first entry of keypad_names with this number, 0 when there is none
keypad_find(keypadnum) ==
    LET hits == {i \in 1..Len(keypad_names) : keypad_names[i].number = keypadnum}
    IN IF hits = {} THEN 0 ELSE CHOOSE i \in hits : \A j \in hits : i <= j

\* a variant that takes KEY_F0 itself for a function key
IsFunctionKeyFromBase(keypadnum) == keypadnum >= KEY_F0

\* the test that makes a key without a name a function key
IsFunctionKey(keypadnum) == keypadnum > KEY_F0

\* the name zccmd_input gives the key keypadnum > 0
keypad_name(keypadnum) ==
    LET nnptr == keypad_find(keypadnum) IN
    IF nnptr # 0 THEN keypad_names[nnptr].name
    ELSE IF IsFunctionKey(keypadnum) THEN "F" \o ToString(keypadnum - KEY_F0)
    ELSE ToString(keypadnum)

(* What one read gives.  With HAVE_WGET_WCH, rd.status is wget_wch's "OK",   *)
(* "KEY_CODE_YES" or "ERR", rd.wi the character or key code, rd.ret what     *)
(* wctomb(instr, wi) returns and rd.mb what instr then holds up to its first *)
(* NUL: the bytes of the character, or after a return of -1 whatever was in  *)
(* the array, whose length metafy(instr, -1) takes with strlen.  Without     *)
(* HAVE_WGET_WCH, rd.status is "OK" or "ERR" and rd.wi what wgetch returns.  *)
input_decode(wide, rd) ==
    IF wide
    THEN IF rd.status = "OK"
         THEN [ok |-> TRUE, keypadnum |-> -1,
               instr |-> IF rd.ret = 0 THEN <<Meta, Xor32(0)>>
                         ELSE IF rd.ret = -1 THEN metafy(rd.mb)
                         ELSE metafy(SubSeq(rd.mb, 1, rd.ret))]
         ELSE IF rd.status = "KEY_CODE_YES"
         THEN [ok |-> TRUE, keypadnum |-> rd.wi, instr |-> <<>>]
         ELSE [ok |-> FALSE, keypadnum |-> -1, instr |-> <<>>]
    ELSE IF rd.status = "ERR"
         THEN [ok |-> FALSE, keypadnum |-> -1, instr |-> <<>>]
         ELSE IF rd.wi >= 256
         THEN [ok |-> TRUE, keypadnum |-> rd.wi, instr |-> <<>>]
         ELSE [ok |-> TRUE, keypadnum |-> -1,
               instr |-> IF imeta(rd.wi) THEN <<Meta, Xor32(rd.wi)>> ELSE <<rd.wi>>]

\* a variant that always takes the default parameter
AlwaysReply(args) == "REPLY"

\* zccmd_input: var is args[1], or "REPLY" without it
PrimaryName(args) == IF Len(args) >= 1 THEN args[1] ELSE "REPLY"

\* args: the parameter names after the window, <<>>, <<var>> or <<var, keyvar>>;
\* set1_ok, set2_ok: whether setsparam can set the first and the second parameter
zccmd_input(name, args, rd, set1_ok, set2_ok) ==
    LET v == zcurses_validate_window(name, ZCURSES_USED) IN
    IF v.node = 0
    THEN BadWindow("input", name, args, v)
    ELSE LET h == zcurses_windows[v.node].win
             d == input_decode(have_wget_wch, rd)
             var == PrimaryName(args)
             both == Len(args) >= 2
             p1 == (var :> d.instr) @@ params
         IN /\ zc_errno' = v.zc_errno
            /\ curses_wins' = [curses_wins EXCEPT ![h].keypad = both]
            /\ IF ~d.ok
               THEN /\ Report("input", name, args, 1, <<>>)
                    /\ UNCHANGED params
               ELSE IF ~set1_ok
               THEN /\ ReportKey("input", name, args, 1, <<>>, d.keypadnum)
                    /\ UNCHANGED params
               ELSE IF ~both
               THEN /\ params' = p1
                    /\ ReportKey("input", name, args, 0, <<>>, d.keypadnum)
               ELSE IF ~set2_ok
               THEN /\ params' = p1
                    /\ ReportKey("input", name, args, 1, <<>>, d.keypadnum)
               ELSE /\ params' = (args[2] :> (IF d.keypadnum > 0
                                              THEN keypad_name(d.keypadnum)
                                              ELSE "")) @@ p1
                    /\ ReportKey("input", name, args, 0, <<>>, d.keypadnum)
            /\ UNCHANGED <<zcurses_windows, colors, ttys, module>>

\* zcurses_windowsgetfn: the names of the windows, in the order of the list
zcurses_windowsgetfn == [i \in 1..Len(zcurses_windows) |-> zcurses_windows[i].name]

\* a read of the special parameter zcurses_windows
get_zcurses_windows ==
    /\ module = "booted"
    /\ Report("zcurses_windows", "", zcurses_windowsgetfn, 0, <<>>)
    /\ UNCHANGED <<registry, colors, ttys, zc_errno, params, module, build>>

\* cleanup_: freelinklist(zcurses_windows, zcurses_free_window), deletehashtable.
\* delwin_ok[h] is the library's answer to delwin() of the WINDOW h
zcurses_free_window(wins, w, delwin_ok) ==
    IF ~HasFlag(w.flags, ZCWF_PERMANENT) /\ delwin_ok[w.win]
    THEN [wins EXCEPT ![w.win] = DeadWINDOW]
    ELSE wins

RECURSIVE freelinklist(_, _, _)
freelinklist(wins, list, delwin_ok) ==
    IF list = <<>> THEN wins
    ELSE freelinklist(zcurses_free_window(wins, Head(list), delwin_ok), Tail(list), delwin_ok)

cleanup_(delwin_ok) ==
    /\ module = "booted"
    /\ curses_wins' = freelinklist(curses_wins, zcurses_windows, delwin_ok)
    /\ zcurses_windows' = <<>>
    /\ zcurses_colorpairs' = [zcurses_colorpairs EXCEPT !.node = <<>>]
    /\ module' = "cleaned"
    /\ Report("cleanup_", "", <<>>, 0, <<>>)
    /\ UNCHANGED <<zc_errno, zc_color_phase, next_cp, curses_pairs, curses_rejected,
                   ttys, params, build>>

(***************************************************************************)
(* bin_zcurses: the dispatch of one command                                *)
(***************************************************************************)
scs ==
    <<[name |-> "init", minargs |-> 0, maxargs |-> 0],
      [name |-> "addwin", minargs |-> 5, maxargs |-> 5],
      [name |-> "delwin", minargs |-> 1, maxargs |-> 1],
      [name |-> "refresh", minargs |-> 0, maxargs |-> 1],
      [name |-> "move", minargs |-> 3, maxargs |-> 3],
      [name |-> "clear", minargs |-> 1, maxargs |-> 2],
      [name |-> "position", minargs |-> 2, maxargs |-> 2],
      [name |-> "char", minargs |-> 2, maxargs |-> 2],
      [name |-> "string", minargs |-> 2, maxargs |-> 2],
      [name |-> "border", minargs |-> 1, maxargs |-> 1],
      [name |-> "end", minargs |-> 0, maxargs |-> 0],
      [name |-> "attr", minargs |-> 2, maxargs |-> -1],
      [name |-> "scroll", minargs |-> 2, maxargs |-> 2],
      [name |-> "input", minargs |-> 1, maxargs |-> 3]>>

\* the warning of bin_zcurses for the subcommand verb with num_args arguments,
\* "" when it goes on to the handler
bin_zcurses_usage(verb, num_args) ==
    LET zcsc == {i \in 1..Len(scs) : scs[i].name = verb} IN
    IF zcsc = {} THEN "unknown subcommand"
    ELSE LET sc == scs[CHOOSE i \in zcsc : TRUE] IN
         IF num_args < sc.minargs THEN "too few arguments for subcommand"
         ELSE IF sc.maxargs >= 0 /\ num_args > sc.maxargs
         THEN "too may arguments for subcommand"
         ELSE ""

\* the module is loaded and the process alive
Booted == module = "booted"

bin_zcurses_misuse(verb, num_args) ==
    /\ Booted
    /\ bin_zcurses_usage(verb, num_args) # ""
    /\ Report(verb, "", <<num_args>>, 1, <<bin_zcurses_usage(verb, num_args)>>)
    /\ UNCHANGED <<registry, colors, ttys, zc_errno, params, module, build>>

bin_zcurses_init(initscr_ok, start_color_ok) ==
    /\ Booted
    /\ zccmd_init(initscr_ok, start_color_ok)
    /\ UNCHANGED build

bin_zcurses_end ==
    /\ Booted
    /\ zccmd_endwin
    /\ UNCHANGED build

bin_zcurses_addwin(name, newwin_ok) ==
    /\ Booted
    /\ IF BeforeInit THEN Refused("addwin", name, <<>>) ELSE zccmd_addwin(name, newwin_ok)
    /\ UNCHANGED build

bin_zcurses_delwin(name, delwin_ok) ==
    /\ Booted
    /\ IF BeforeInit THEN Refused("delwin", name, <<>>) ELSE zccmd_delwin(name, delwin_ok)
    /\ UNCHANGED build

bin_zcurses_refresh(args, wrefresh_ok) ==
    /\ Booted
    /\ IF BeforeInit
       THEN Refused("refresh", IF args = <<>> THEN "" ELSE args[1], <<>>)
       ELSE zccmd_refresh(args, wrefresh_ok)
    /\ UNCHANGED build

bin_zcurses_move(name, wmove_ok) ==
    /\ Booted
    /\ IF BeforeInit THEN Refused("move", name, <<>>) ELSE zccmd_move(name, wmove_ok)
    /\ UNCHANGED build

bin_zcurses_clear(name, how, call_ok) ==
    /\ Booted
    /\ IF BeforeInit THEN Refused("clear", name, how) ELSE zccmd_clear(name, how, call_ok)
    /\ UNCHANGED build

bin_zcurses_position(name, array, getyx_ok) ==
    /\ Booted
    /\ IF BeforeInit THEN Refused("position", name, <<array>>)
       ELSE zccmd_position(name, array, getyx_ok)
    /\ UNCHANGED build

bin_zcurses_char(name, call_ok) ==
    /\ Booted
    /\ IF BeforeInit THEN Refused("char", name, <<>>) ELSE zccmd_char(name, call_ok)
    /\ UNCHANGED build

bin_zcurses_string(name, waddstr_ok) ==
    /\ Booted
    /\ IF BeforeInit THEN Refused("string", name, <<>>) ELSE zccmd_string(name, waddstr_ok)
    /\ UNCHANGED build

bin_zcurses_border(name, wborder_ok) ==
    /\ Booted
    /\ IF BeforeInit THEN Refused("border", name, <<>>) ELSE zccmd_border(name, wborder_ok)
    /\ UNCHANGED build

\* attr, however far next_cp has run
bin_zcurses_attr_any(name, attrs, env) ==
    /\ Booted
    /\ IF BeforeInit THEN Refused("attr", name, attrs) ELSE zccmd_attr(name, attrs, env)
    /\ UNCHANGED build

\* attr, while next_cp has run at most MaxOverrun past COLOR_PAIRS
bin_zcurses_attr(name, attrs, env) ==
    /\ bin_zcurses_attr_any(name, attrs, env)
    /\ next_cp' <= COLOR_PAIRS + MaxOverrun

bin_zcurses_scroll(name, mode, scrollok_ok, wscrl_ok) ==
    /\ Booted
    /\ IF BeforeInit THEN Refused("scroll", name, <<mode>>)
       ELSE zccmd_scroll(name, mode, scrollok_ok, wscrl_ok)
    /\ UNCHANGED build

bin_zcurses_input(name, args, rd, set1_ok, set2_ok) ==
    /\ Booted
    /\ IF BeforeInit THEN Refused("input", name, args)
       ELSE zccmd_input(name, args, rd, set1_ok, set2_ok)
    /\ UNCHANGED build

(***************************************************************************)
(* The commands the model issues                                           *)
(***************************************************************************)
\* window names: the empty name, the permanent window, two windows of the script
WinNames == {"", "stdscr", "w", "v"}
\* fewer of them, where every verb is issued: "v" is never created there
SomeNames == {"", "stdscr", "v"}
\* the names of SpecOrder
OrderNames == {"stdscr", "u", "v", "w"}
Misuses == {<<"bogus", 0>>, <<"init", 1>>, <<"addwin", 4>>, <<"delwin", 2>>}
ClearHows == {<<>>, <<"eol">>, <<"all">>}
ScrollModes == {<<"o", "n">>, <<"o", "f", "f">>, <<"3">>, <<"-", "1">>, <<"3", "x">>, <<>>}

\* the library's part in a token that needs none
NoEnv == [init_pair_ok |-> TRUE, wcolor_set_ok |-> TRUE, null_deref |-> "SIGSEGV"]
\* the library's possible parts in a color token
ColorEnvs ==
    {[init_pair_ok |-> i, wcolor_set_ok |-> c, null_deref |-> d] :
        i \in BOOLEAN, c \in BOOLEAN, d \in {"SIGSEGV"}}
\* ... when zcurses_colorpairs is NULL
NullEnvs ==
    {[init_pair_ok |-> TRUE, wcolor_set_ok |-> TRUE, null_deref |-> d] :
        d \in {"SIGSEGV", "0", "1"}}

\* the environments of a token list: one choice for each color token
RECURSIVE Envs(_)
Envs(attrs) ==
    IF attrs = <<>> THEN {<<>>}
    ELSE {<<e>> \o rest :
            e \in (IF strchr(Head(attrs), "/") = 0 THEN {NoEnv}
                   ELSE IF zcurses_colorpairs.null THEN NullEnvs ELSE ColorEnvs),
            rest \in Envs(Tail(attrs))}

\* the token lists of up to n tokens from pool
RECURSIVE TokenLists(_, _)
TokenLists(pool, n) ==
    IF n = 0 THEN {}
    ELSE {<<t>> : t \in pool}
         \cup {<<t>> \o l : t \in pool, l \in TokenLists(pool, n - 1)}

\* attribute tokens and one color token
AttrTokens ==
    {<<"bold">>, <<"+", "reverse">>, <<"-", "bold">>, <<"bogus">>, <<"red", "/", "blue">>}
\* color tokens: four pairs of known colors, three with an unknown color
ColorTokens ==
    {<<"red", "/", "blue">>, <<"blue", "/", "red">>, <<"green", "/", "black">>,
     <<"black", "/", "white">>,
     <<"foo", "/", "red">>, <<"red", "/", "bar">>, <<"foo", "/", "bar">>}

\* the batch of SpecWrap
WrapBatch == <<<<"red", "/", "blue">>, <<"blue", "/", "red">>, <<"green", "/", "black">>>>

\* reads of `zcurses input' where every verb is issued
KeyReads ==
    {[status |-> "ERR", wi |-> 0, ret |-> 0, mb |-> <<>>],
     [status |-> "KEY_CODE_YES", wi |-> 258, ret |-> 0, mb |-> <<>>]}
\* key codes: DOWN, KEY_CODE_YES itself, F0, F10
KeyCodes == {258, 256, 264, 274}
\* a character that wctomb cannot convert: it returns -1 and leaves instr, which
\* was never initialized, holding whatever the stack held
UnconvertibleReads ==
    {[status |-> "OK", wi |-> 8364, ret |-> -1, mb |-> garbage] :
        garbage \in {<<>>, <<66, 131>>}}
\* reads of the key decoder: no input, a key code, and characters: "a", U+00A0 as
\* UTF-8, NUL, and one that wctomb cannot convert
AllReads ==
    {[status |-> "ERR", wi |-> 0, ret |-> 0, mb |-> <<>>]}
    \cup {[status |-> "KEY_CODE_YES", wi |-> c, ret |-> 0, mb |-> <<>>] : c \in KeyCodes}
    \cup {[status |-> "OK", wi |-> 97, ret |-> 1, mb |-> <<97>>],
          [status |-> "OK", wi |-> 160, ret |-> 2, mb |-> <<194, 160>>],
          [status |-> "OK", wi |-> 0, ret |-> 1, mb |-> <<0>>]}
    \cup UnconvertibleReads
\* the parameter names given to `zcurses input'
InputArgs == {<<>>, <<"k">>, <<"k", "kn">>}

(***************************************************************************)
(* The state after boot_, before any command                               *)
(***************************************************************************)
Boot(wide, f0) ==
    /\ zcurses_windows = <<>>
    /\ zcurses_colorpairs = [null |-> TRUE, node |-> <<>>]
    /\ zc_errno = 0
    /\ zc_color_phase = 0
    /\ next_cp = 0
    /\ saved_tty_state = "zero"
    /\ curses_tty_state = "zero"
    /\ tty = "icanon echo"
    /\ shttyinfo = tty
    /\ curses_wins = <<>>
    /\ curses_pairs = <<>>
    /\ curses_rejected = FALSE
    /\ params = <<>>
    /\ last = [cmd |-> "", win |-> "", args |-> <<>>, ret |-> 0, diag |-> <<>>,
               keypadnum |-> -1]
    /\ module = "booted"
    /\ have_wget_wch = wide
    /\ key_f0_named = f0

\* a build with HAVE_WGET_WCH and a table that does not name KEY_F0
Init == Boot(TRUE, FALSE)

\* any build
InitAnyBuild == \E wide, f0 \in BOOLEAN : Boot(wide, f0)

(***************************************************************************)
(* Spec: every verb, on few windows                                        *)
(***************************************************************************)
Next ==
    \/ \E m \in Misuses : bin_zcurses_misuse(m[1], m[2])
    \/ \E i, c \in BOOLEAN : bin_zcurses_init(i, c)
    \/ bin_zcurses_end
    \/ \E n \in {"", "stdscr", "w"}, ok \in BOOLEAN : bin_zcurses_addwin(n, ok)
    \/ \E n \in {"", "stdscr", "w"}, ok \in BOOLEAN : bin_zcurses_delwin(n, ok)
    \/ \E a \in {<<>>} \cup {<<n>> : n \in SomeNames}, ok \in BOOLEAN :
          bin_zcurses_refresh(a, ok)
    \/ \E n \in SomeNames, ok \in BOOLEAN : bin_zcurses_move(n, ok)
    \/ \E n \in SomeNames, how \in ClearHows, ok \in BOOLEAN : bin_zcurses_clear(n, how, ok)
    \/ \E n \in SomeNames, ok \in BOOLEAN : bin_zcurses_position(n, "pos", ok)
    \/ \E n \in SomeNames, ok \in BOOLEAN : bin_zcurses_char(n, ok)
    \/ \E n \in SomeNames, ok \in BOOLEAN : bin_zcurses_string(n, ok)
    \/ \E n \in SomeNames, ok \in BOOLEAN : bin_zcurses_border(n, ok)
    \/ \E n \in SomeNames, l \in TokenLists({<<"bold">>}, 1) :
          \E env \in Envs(l) : bin_zcurses_attr(n, l, env)
    \/ \E n \in SomeNames, m \in {<<"o", "n">>, <<"3">>}, s, ok \in BOOLEAN :
          bin_zcurses_scroll(n, m, s, ok)
    \/ \E n \in SomeNames, rd \in KeyReads : bin_zcurses_input(n, <<>>, rd, TRUE, TRUE)
    \/ \E ok \in [1..Len(curses_wins) -> BOOLEAN] : cleanup_(ok)

Spec == Init /\ [][Next]_vars

(***************************************************************************)
(* SpecRegistry: the commands that change the registry, on every name      *)
(***************************************************************************)
NextRegistry ==
    \/ \E i, c \in BOOLEAN : bin_zcurses_init(i, c)
    \/ bin_zcurses_end
    \/ \E n \in WinNames, ok \in BOOLEAN : bin_zcurses_addwin(n, ok)
    \/ \E n \in WinNames, ok \in BOOLEAN : bin_zcurses_delwin(n, ok)
    \/ \E n \in WinNames, m \in ScrollModes, s, ok \in BOOLEAN :
          bin_zcurses_scroll(n, m, s, ok)
    \/ \E ok \in [1..Len(curses_wins) -> BOOLEAN] : cleanup_(ok)

SpecRegistry == Init /\ [][NextRegistry]_vars

(***************************************************************************)
(* SpecOrder: windows made and destroyed, and the list of their names read *)
(***************************************************************************)
NextOrder ==
    \/ \E i \in BOOLEAN : bin_zcurses_init(i, TRUE)
    \/ bin_zcurses_end
    \/ \E n \in OrderNames, ok \in BOOLEAN : bin_zcurses_addwin(n, ok)
    \/ \E n \in OrderNames, ok \in BOOLEAN : bin_zcurses_delwin(n, ok)
    \/ get_zcurses_windows
    \/ \E ok \in [1..Len(curses_wins) -> BOOLEAN] : cleanup_(ok)

SpecOrder == Init /\ [][NextOrder]_vars

(***************************************************************************)
(* SpecColor: color tokens, one in a command, on the permanent window      *)
(***************************************************************************)
NextColor ==
    \/ \E i, c \in BOOLEAN : bin_zcurses_init(i, c)
    \/ bin_zcurses_end
    \/ \E l \in TokenLists(ColorTokens, 1) :
          \E env \in Envs(l) : bin_zcurses_attr("stdscr", l, env)
    \/ \E ok \in [1..Len(curses_wins) -> BOOLEAN] : cleanup_(ok)

SpecColor == Init /\ [][NextColor]_vars

(***************************************************************************)
(* SpecWrap: one batch of three keys, of which COLOR_PAIRS - 1 find a pair, *)
(* repeated until next_cp has run through the values of a short            *)
(***************************************************************************)
NextWrap ==
    \/ bin_zcurses_init(TRUE, TRUE)
    \/ bin_zcurses_attr_any("stdscr", WrapBatch, <<NoEnv, NoEnv, NoEnv>>)

SpecWrap == Init /\ [][NextWrap]_vars

(***************************************************************************)
(* SpecAttr: lists of attribute and color tokens                           *)
(***************************************************************************)
NextAttr ==
    \/ \E i, c \in BOOLEAN : bin_zcurses_init(i, c)
    \/ \E n \in {"stdscr", "v"}, l \in TokenLists(AttrTokens, MaxTokens) :
          \E env \in Envs(l) : bin_zcurses_attr(n, l, env)

SpecAttr == Init /\ [][NextAttr]_vars

(***************************************************************************)
(* SpecInput: the key decoder, in both builds                              *)
(***************************************************************************)
NextInput ==
    \/ \E i \in BOOLEAN : bin_zcurses_init(i, TRUE)
    \/ \E a \in InputArgs, rd \in AllReads, s2 \in BOOLEAN :
          bin_zcurses_input("stdscr", a, rd, TRUE, s2)
    \/ \E rd \in AllReads : bin_zcurses_input("stdscr", <<"k">>, rd, FALSE, TRUE)
    \/ \E n \in {"", "v"}, rd \in AllReads : bin_zcurses_input(n, <<"k">>, rd, TRUE, TRUE)

SpecInput == InitAnyBuild /\ [][NextInput]_vars

(***************************************************************************)
(* Properties of the registry                                              *)
(***************************************************************************)
\* the list has an entry named n
PresentIn(list, n) == \E i \in 1..Len(list) : list[i].name = n
\* the registry has an entry named n
Present(n) == PresentIn(zcurses_windows, n)

\* the names the commands of the specifications use, the empty string apart
Names == {"stdscr", "w", "v"}

AlreadyDefined == <<"window already defined">>
Undefined == <<"window undefined">>
NotStarted == <<"can't be used before `zcurses init'">>

\* C1: a window created by a successful addwin n stays in the registry until a
\* successful delwin n (or the cleanup of the module), and while it is there
\* every addwin n fails with `window already defined', leaves the registry
\* (entries, order, handles) as it was and allocates no library handle.
C1_AddwinTwice ==
    [][/\ (last'.cmd = "addwin" /\ last'.ret = 0) => PresentIn(zcurses_windows', last'.win)
       /\ \A n \in Names :
            /\ (Present(n) /\ ~Present(n)')
                   => \/ last'.cmd = "cleanup_"
                      \/ last'.cmd = "delwin" /\ last'.win = n /\ last'.ret = 0
            /\ (Present(n) /\ last'.cmd = "addwin" /\ last'.win = n)
                   => /\ last'.ret = 1
                      /\ last'.diag = AlreadyDefined
                      /\ zcurses_windows' = zcurses_windows
                      /\ curses_wins' = curses_wins]_vars

\* a second addwin of "w" has just failed, with "w" and another window in the registry
C1_Witness ==
    /\ last.cmd = "addwin" /\ last.win = "w" /\ last.ret = 1
    /\ last.diag = AlreadyDefined
    /\ Present("w") /\ Present("v")

\* the list l without its i-th entry
Without(l, i) == [j \in 1..(Len(l) - 1) |-> IF j < i THEN l[j] ELSE l[j + 1]]

\* C2: in a started session, delwin of a name that is not in the registry fails
\* with `window undefined' and changes nothing; a delwin that succeeds removes
\* exactly the entry of that name and releases its handle, so that the name is
\* no longer in the registry (a repeated delwin is then the first case) and an
\* addwin of a name not in the registry is never rejected as already defined.
C2_Delwin ==
    [][\A n \in Names :
         /\ (Present("stdscr") /\ ~Present(n) /\ last'.cmd = "delwin" /\ last'.win = n)
                => /\ last'.ret = 1
                   /\ last'.diag = Undefined
                   /\ UNCHANGED <<registry, colors, ttys, params>>
         /\ (last'.cmd = "delwin" /\ last'.win = n /\ last'.ret = 0)
                => \E i \in 1..Len(zcurses_windows) :
                      /\ zcurses_windows[i].name = n
                      /\ ~HasFlag(zcurses_windows[i].flags, ZCWF_PERMANENT)
                      /\ zcurses_windows' = Without(zcurses_windows, i)
                      /\ curses_wins' =
                             [curses_wins EXCEPT ![zcurses_windows[i].win] = DeadWINDOW]
                      /\ ~Present(n)'
         /\ (Present("stdscr") /\ ~Present(n) /\ last'.cmd = "addwin" /\ last'.win = n)
                => last'.diag # AlreadyDefined]_vars

\* "w" was deleted, from before "v" in the list, and a delwin of "w" has just
\* failed as undefined
C2_Witness ==
    /\ last.cmd = "delwin" /\ last.win = "w" /\ last.ret = 1
    /\ last.diag = Undefined
    /\ Present("v")
    /\ \E h \in 1..Len(curses_wins) :
          /\ ~curses_wins[h].live
          /\ \E i \in 1..Len(zcurses_windows) :
                zcurses_windows[i].name = "v" /\ zcurses_windows[i].win > h

\* C3: delwin of the permanent window fails in every state, and from the init
\* that inserts it the permanent window is in the registry, with its handle
\* live, in every state up to the cleanup of the module, whatever commands
\* (end and delwin among them) are issued.
C3_Permanent ==
    [][/\ (last'.cmd = "delwin" /\ last'.win = "stdscr")
              => last'.ret = 1 /\ UNCHANGED registry
       /\ (Present("stdscr") /\ last'.cmd # "cleanup_")
              => \E i \in 1..Len(zcurses_windows) :
                    /\ zcurses_windows[i].name = "stdscr"
                    /\ i <= Len(zcurses_windows')
                    /\ zcurses_windows'[i].name = "stdscr"
                    /\ zcurses_windows'[i].win = zcurses_windows[i].win
                    /\ HasFlag(zcurses_windows'[i].flags, ZCWF_PERMANENT)
                    /\ curses_wins'[zcurses_windows[i].win].live]_vars

\* after init and end, a delwin of the permanent window whose release the
\* library would have accepted has just failed
C3_Witness ==
    /\ last.cmd = "delwin" /\ last.win = "stdscr" /\ last.ret = 1
    /\ last.diag = <<"window can't be deleted">>
    /\ Present("stdscr")
    /\ tty = saved_tty_state /\ shttyinfo = saved_tty_state /\ tty # curses_tty_state

\* the verbs that need a session
SessionVerbs ==
    {"addwin", "delwin", "refresh", "move", "clear", "position", "char", "string",
     "border", "attr", "scroll", "input"}

\* C4: while the registry has no permanent window (no init has succeeded), every
\* verb other than init and end returns failure with the warning of the
\* dispatcher, not of a handler, and leaves the registry, the color-pair cache,
\* the pair counter, the terminal modes, zc_errno and the parameters unchanged.
C4_BeforeInit ==
    [][(~Present("stdscr") /\ last'.cmd \in SessionVerbs)
          => /\ last'.ret = 1
             /\ last'.diag \in {NotStarted, <<"too few arguments for subcommand">>,
                                <<"too may arguments for subcommand">>}
             /\ UNCHANGED <<registry, colors, ttys, zc_errno, params>>]_vars

\* after an init that failed, an attr has just been refused
C4_Witness ==
    /\ ~Present("stdscr")
    /\ saved_tty_state = "icanon echo"
    /\ last.cmd = "attr" /\ last.ret = 1 /\ last.diag = NotStarted

(***************************************************************************)
(* Properties of the color-pair cache                                      *)
(***************************************************************************)
\* the WINDOW of the registry's entry named n
HandleOf(n) ==
    zcurses_windows[CHOOSE i \in 1..Len(zcurses_windows) : zcurses_windows[i].name = n].win

\* the entries of the cache: key -> pair number
cache == zcurses_colorpairs.node

\* the command of this step is `attr' on a window of the registry with one token
OneTokenAttr == last'.cmd = "attr" /\ Present(last'.win) /\ Len(last'.args) = 1

\* the color numbers of <curses.h>
ColorNumber ==
    [c \in {"black", "red", "green", "yellow", "blue", "magenta", "cyan", "white"} |->
        CASE c = "black" -> 0 [] c = "red" -> 1 [] c = "green" -> 2 [] c = "yellow" -> 3
          [] c = "blue" -> 4 [] c = "magenta" -> 5 [] c = "cyan" -> 6 [] c = "white" -> 7]

\* the keys fg/bg of two known colors
ValidKey(k) == Len(k) = 3 /\ k[2] = "/" /\ k[1] \in DOMAIN ColorNumber /\ k[3] \in DOMAIN ColorNumber

\* C5: no entry of the cache is evicted or remapped before the cleanup of the
\* module, and resolving a key that has an entry defines no pair and does not
\* advance the pair counter; when it succeeds the window has the pair of the entry.
C5_CachedKey ==
    [][/\ last'.cmd # "cleanup_"
              => \A k \in DOMAIN cache : k \in DOMAIN cache' /\ cache'[k] = cache[k]
       /\ (OneTokenAttr /\ last'.args[1] \in DOMAIN cache)
              => /\ next_cp' = next_cp
                 /\ curses_pairs' = curses_pairs
                 /\ last'.ret = 0
                        => curses_wins'[HandleOf(last'.win)].pair = cache[last'.args[1]]]_vars

\* with two keys in the cache, the first has just been resolved again
C5_Witness ==
    /\ last.cmd = "attr" /\ last.ret = 0 /\ Len(last.args) = 1
    /\ last.args[1] \in DOMAIN cache
    /\ cache[last.args[1]] = 1
    /\ next_cp = 2 /\ Cardinality(DOMAIN cache) = 2
    /\ curses_wins[HandleOf("stdscr")].pair = 1

\* C6: with zc_color_phase 1 (color just enabled) a color token takes the
\* allocating path and ends the phase: a key of known colors that the library
\* accepts advances the pair counter by one and defines that new pair, which
\* the cache then maps the key to.  The cache is empty whenever the phase is 1.
\* From phase 2 on the phase stays 2 (end and init included), a key in the cache
\* is looked up and allocates nothing, and a key not in it is allocated.
C6_Bypass ==
    [][/\ (zc_color_phase = 1 /\ OneTokenAttr /\ strchr(last'.args[1], "/") # 0)
              => /\ zc_color_phase' = 2
                 /\ cache = <<>>
                 /\ (ValidKey(last'.args[1]) /\ ~curses_rejected')
                        => /\ next_cp' = next_cp + 1
                           /\ next_cp' \notin DOMAIN curses_pairs
                           /\ next_cp' \in DOMAIN curses_pairs'
                           /\ curses_pairs'[next_cp'] =
                                  <<ColorNumber[last'.args[1][1]], ColorNumber[last'.args[1][3]]>>
                           /\ cache' = (last'.args[1] :> next_cp')
       /\ zc_color_phase = 2 => zc_color_phase' = 2
       /\ (zc_color_phase = 2 /\ OneTokenAttr /\ last'.args[1] \in DOMAIN cache)
              => next_cp' = next_cp /\ curses_pairs' = curses_pairs /\ cache' = cache
       /\ (zc_color_phase = 2 /\ OneTokenAttr /\ ValidKey(last'.args[1])
             /\ last'.args[1] \notin DOMAIN cache /\ ~zcurses_colorpairs.null)
              => next_cp' = next_cp + 1]_vars

\* the first color request of the session has just allocated pair 1
C6_Witness ==
    /\ zc_color_phase = 2 /\ next_cp = 1
    /\ last.cmd = "attr" /\ last.ret = 0 /\ Len(last.args) = 1
    /\ cache = (last.args[1] :> 1)
    /\ 1 \in DOMAIN curses_pairs
    /\ curses_wins[HandleOf("stdscr")].pair = 1

\* C7: in a session with color, as long as the library has accepted every pair
\* definition: a key of known colors that is not in the cache gets the next
\* identifier, one more than the number of keys in the cache, while fewer than
\* COLOR_PAIRS - 1 keys are in it, and fails, leaving the cache as it is, from
\* then on; every identifier in the cache is in 1..COLOR_PAIRS-1, never 0.
C7_Capacity ==
    [][/\ \A k \in DOMAIN cache' : cache'[k] \in 1..(COLOR_PAIRS - 1)
       /\ (OneTokenAttr /\ ~zcurses_colorpairs.null /\ ~curses_rejected'
             /\ ValidKey(last'.args[1]) /\ last'.args[1] \notin DOMAIN cache)
              => IF Cardinality(DOMAIN cache) < COLOR_PAIRS - 1
                 THEN cache' = (last'.args[1] :> Cardinality(DOMAIN cache) + 1) @@ cache
                 ELSE last'.ret = 1 /\ cache' = cache]_vars

\* with COLOR_PAIRS - 1 keys in the cache and no definition rejected, one more
\* key of known colors has just failed
C7_Witness ==
    /\ ~curses_rejected
    /\ Cardinality(DOMAIN cache) = COLOR_PAIRS - 1
    /\ {cache[k] : k \in DOMAIN cache} = 1..(COLOR_PAIRS - 1)
    /\ last.cmd = "attr" /\ last.ret = 1 /\ Len(last.args) = 1
    /\ ValidKey(last.args[1]) /\ last.args[1] \notin DOMAIN cache

(***************************************************************************)
(* Properties of scroll                                                    *)
(***************************************************************************)
\* two integers as `zcurses scroll' gets them
NumericModes == {<<"3">>, <<"-", "1">>}

\* C8: a scroll by a number of lines leaves the scroll mode of the window as it
\* was, the flag of the registry and the setting of the library alike: both off
\* if they were off, both on if they were on, whether wscrl succeeded or failed.
C8_NumericScroll ==
    [][\A i \in 1..Len(zcurses_windows) :
          (/\ last'.cmd = "scroll"
           /\ last'.win = zcurses_windows[i].name
           /\ Len(last'.args) = 1
           /\ last'.args[1] \in NumericModes)
              => LET h == zcurses_windows[i].win
                     on == HasFlag(zcurses_windows[i].flags, ZCWF_SCROLL)
                 IN /\ curses_wins[h].scroll = on
                    /\ zcurses_windows' = zcurses_windows
                    /\ curses_wins'[h].scroll = on
                    /\ last'.ret \in {0, 1}]_vars

\* a scroll of "w" by 3 lines has just failed in wscrl, scrolling of "w" being
\* off and that of the permanent window on
C8_Witness ==
    /\ last.cmd = "scroll" /\ last.win = "w" /\ last.ret = 1 /\ last.diag = <<>>
    /\ last.args = <<(<<"3">>)>>
    /\ Present("w") /\ Present("stdscr")
    /\ ~curses_wins[HandleOf("w")].scroll
    /\ curses_wins[HandleOf("stdscr")].scroll

(***************************************************************************)
(* Properties of attr                                                      *)
(***************************************************************************)
\* the attributes of <curses.h> by name
AttrNumber ==
    (<<"blink">> :> "A_BLINK") @@ (<<"bold">> :> "A_BOLD") @@ (<<"dim">> :> "A_DIM")
    @@ (<<"reverse">> :> "A_REVERSE") @@ (<<"standout">> :> "A_STANDOUT")
    @@ (<<"underline">> :> "A_UNDERLINE")

\* the token goes to the color-pair cache
IsColorToken(tok) == \E i \in 1..Len(tok) : tok[i] = "/"
\* the name in an attribute token, after its sign
AttrWord(tok) == IF tok # <<>> /\ tok[1] \in {"+", "-"} THEN Tail(tok) ELSE tok
\* the token names no attribute
UnknownAttr(tok) == ~IsColorToken(tok) /\ AttrWord(tok) \notin DOMAIN AttrNumber

\* the attributes of a window that had attrs, after every token of toks that
\* names an attribute has taken effect, from left to right
RECURSIVE AttrsAfter(_, _)
AttrsAfter(attrs, toks) ==
    IF toks = <<>> THEN attrs
    ELSE LET t == Head(toks) IN
         AttrsAfter(IF IsColorToken(t) \/ UnknownAttr(t) THEN attrs
                    ELSE IF t[1] = "-" THEN attrs \ {AttrNumber[AttrWord(t)]}
                    ELSE attrs \cup {AttrNumber[AttrWord(t)]},
                    Tail(toks))

\* C9: attr on a window of the registry attempts every token, from left to
\* right: the command returns 0 or 1, the attributes of the window are then
\* those that the valid attribute tokens of the batch give, whatever other
\* token fails, there is one `attribute not known' for each token that names
\* no attribute, and a batch without color tokens fails iff it has such a token.
C9_AttrBatch ==
    [][(last'.cmd = "attr" /\ Present(last'.win))
          => LET h == HandleOf(last'.win)
                 unknown == {i \in 1..Len(last'.args) : UnknownAttr(last'.args[i])}
                 colored == {i \in 1..Len(last'.args) : IsColorToken(last'.args[i])}
             IN /\ last'.ret \in {0, 1}
                /\ curses_wins'[h].attrs = AttrsAfter(curses_wins[h].attrs, last'.args)
                /\ Cardinality({i \in 1..Len(last'.diag) :
                                   last'.diag[i] = "attribute not known"})
                       = Cardinality(unknown)
                /\ unknown # {} => last'.ret = 1
                /\ colored = {} => (last'.ret = 1 <=> unknown # {})]_vars

(***************************************************************************)
(* Properties of input                                                     *)
(***************************************************************************)
\* the step is an input with two parameters that has read a key code and set both
KeyNamed ==
    /\ last'.cmd = "input" /\ last'.ret = 0 /\ Len(last'.args) = 2
    /\ last'.keypadnum > 0

\* the table of this build has an entry for the key code c
InTable(c) == \E i \in 1..Len(keypad_names) : keypad_names[i].number = c
\* the name of that entry
TableName(c) ==
    keypad_names[CHOOSE i \in 1..Len(keypad_names) : keypad_names[i].number = c].name

\* C10 as stated: the name of a key code c is its entry in the table, else
\* "F<c - KEY_F0>" if c is at or above KEY_F0, else c in decimal.
C10_AtOrAboveBase ==
    [][KeyNamed
          => LET c == last'.keypadnum IN
             params'[last'.args[2]] =
                 IF InTable(c) THEN TableName(c)
                 ELSE IF c >= KEY_F0 THEN "F" \o ToString(c - KEY_F0)
                 ELSE ToString(c)]_vars

\* C10, amended: the name of a key code c is its entry in the table, else
\* "F<c - KEY_F0>" if c is above KEY_F0 (KEY_F0 + 10 gives "F10"), else c in
\* decimal: KEY_F0 itself, when the table has no entry for it, gives its number.
C10_AboveBase ==
    [][KeyNamed
          => LET c == last'.keypadnum IN
             params'[last'.args[2]] =
                 IF InTable(c) THEN TableName(c)
                 ELSE IF c > KEY_F0 THEN "F" \o ToString(c - KEY_F0)
                 ELSE ToString(c)]_vars

\* in a build whose table does not name KEY_F0, that key has just been read and
\* named by its number
C10_Witness ==
    /\ ~key_f0_named
    /\ last.cmd = "input" /\ last.ret = 0 /\ last.args = <<"k", "kn">>
    /\ last.keypadnum = KEY_F0
    /\ "kn" \in DOMAIN params /\ params["kn"] = "264"
    /\ params["k"] = <<>>

\* the entries of the registry flagged permanent
Permanents ==
    {i \in 1..Len(zcurses_windows) : HasFlag(zcurses_windows[i].flags, ZCWF_PERMANENT)}

\* C11: in every state the registry has at most one window of each name and at
\* most one permanent window, which is the one named stdscr; an entry named
\* stdscr comes into the registry only by init, never by addwin.
C11_UniqueNames ==
    [][/\ \A i, j \in 1..Len(zcurses_windows') :
             zcurses_windows'[i].name = zcurses_windows'[j].name => i = j
       /\ \A i \in 1..Len(zcurses_windows') :
             HasFlag(zcurses_windows'[i].flags, ZCWF_PERMANENT)
                 <=> zcurses_windows'[i].name = "stdscr"
       /\ (~Present("stdscr") /\ PresentIn(zcurses_windows', "stdscr"))
              => last'.cmd = "init"
       /\ (last'.cmd = "addwin" /\ last'.win = "stdscr")
              => last'.ret = 1 /\ zcurses_windows' = zcurses_windows]_vars

\* with the permanent window and two more in the registry, an addwin of stdscr
\* has just failed
C11_Witness ==
    /\ Cardinality(Permanents) = 1
    /\ Len(zcurses_windows) = 3
    /\ last.cmd = "addwin" /\ last.win = "stdscr" /\ last.ret = 1
    /\ last.diag = AlreadyDefined

\* the entries of a list flagged permanent
PermanentsIn(list) ==
    {i \in 1..Len(list) : HasFlag(list[i].flags, ZCWF_PERMANENT)}

\* the step is an init that reached its handler
InitCalled == last'.cmd = "init" /\ last'.diag = <<>>

\* C12: there is never more than one permanent window.  The init that succeeds
\* without one (the first) puts it into the empty registry with a new handle,
\* captures the terminal mode before the session and, after switching the
\* terminal, the mode of the session.  From then on the permanent window keeps
\* its handle, no step captures either mode again or creates the color-pair
\* cache, and every init succeeds, sets the terminal mode to the captured mode
\* of the session and changes nothing else.
C12_InitIdempotent ==
    [][/\ Cardinality(PermanentsIn(zcurses_windows')) <= 1
       /\ (InitCalled /\ ~Present("stdscr") /\ last'.ret = 0)
              => /\ zcurses_windows = <<>>
                 /\ Len(zcurses_windows') = 1
                 /\ zcurses_windows'[1].name = "stdscr"
                 /\ zcurses_windows'[1].win \notin 1..Len(curses_wins)
                 /\ curses_wins'[zcurses_windows'[1].win].live
                 /\ saved_tty_state' = tty
                 /\ curses_tty_state' = tty'
                 /\ ~zcurses_colorpairs'.null => zcurses_colorpairs'.node = <<>>
       /\ (InitCalled /\ ~Present("stdscr") /\ last'.ret = 1)
              => UNCHANGED <<registry, colors, tty, curses_tty_state>>
       /\ Present("stdscr")
              => /\ UNCHANGED <<saved_tty_state, curses_tty_state>>
                 /\ zcurses_colorpairs'.null = zcurses_colorpairs.null
                 /\ last'.cmd # "cleanup_"
                        => /\ PresentIn(zcurses_windows', "stdscr")
                           /\ zcurses_windows'[1].win = zcurses_windows[1].win
                           /\ zcurses_windows'[1].name = "stdscr"
       /\ (InitCalled /\ Present("stdscr"))
              => /\ last'.ret = 0
                 /\ tty' = curses_tty_state
                 /\ UNCHANGED <<registry, colors, saved_tty_state, curses_tty_state,
                                shttyinfo, zc_errno, params>>]_vars

\* after init, end and some other window's creation, an init has just put the
\* terminal back into the mode of the session
C12_Witness ==
    /\ last.cmd = "init" /\ last.ret = 0 /\ last.diag = <<>>
    /\ Len(zcurses_windows) = 2 /\ Cardinality(Permanents) = 1
    /\ tty = curses_tty_state /\ tty # saved_tty_state
    /\ shttyinfo = saved_tty_state /\ saved_tty_state = "icanon echo"
    /\ curses_tty_state = "cbreak noecho"

\* C13: end always succeeds.  With the permanent window in the registry it sets
\* the terminal to the mode captured before the session; without it the
\* terminal stays as it is.  Either way the registry (entries, order, handles,
\* scroll flags), the windows of the library, the color-pair cache, the pair
\* counter, the phase and both captured modes are unchanged.
C13_End ==
    [][(last'.cmd = "end" /\ last'.diag = <<>>)
          => /\ last'.ret = 0
             /\ UNCHANGED <<registry, colors, saved_tty_state, curses_tty_state,
                            zc_errno, params>>
             /\ IF Present("stdscr")
                THEN tty' = saved_tty_state
                ELSE UNCHANGED <<tty, shttyinfo>>]_vars

\* an end has just put the terminal back as it was before the session, with two
\* windows in the registry, scrolling on for the permanent one
C13_Witness ==
    /\ last.cmd = "end" /\ last.ret = 0
    /\ Len(zcurses_windows) = 2
    /\ HasFlag(zcurses_windows[1].flags, ZCWF_SCROLL)
    /\ curses_wins[HandleOf("stdscr")].scroll
    /\ tty = "icanon echo" /\ saved_tty_state = "icanon echo"
    /\ curses_tty_state = "cbreak noecho"

\* C14: a delwin of a window of the registry that is not permanent either
\* succeeds, or fails without a warning of its own (the library did not release
\* the handle) and leaves the registry as it was: the entry keeps its name, its
\* handle, still live, and its place, and is found by the next command.
C14_DelwinReleaseFails ==
    [][\A i \in 1..Len(zcurses_windows) :
          (/\ last'.cmd = "delwin"
           /\ last'.win = zcurses_windows[i].name
           /\ ~HasFlag(zcurses_windows[i].flags, ZCWF_PERMANENT))
              => \/ last'.ret = 0
                 \/ /\ last'.ret = 1
                    /\ last'.diag = <<>>
                    /\ zcurses_windows' = zcurses_windows
                    /\ curses_wins' = curses_wins
                    /\ curses_wins'[zcurses_windows[i].win].live
                    /\ PresentIn(zcurses_windows', last'.win)]_vars

\* a delwin of "w", second of three windows, has just failed in the library
C14_Witness ==
    /\ last.cmd = "delwin" /\ last.win = "w" /\ last.ret = 1 /\ last.diag = <<>>
    /\ Len(zcurses_windows) = 3
    /\ zcurses_windows[2].name = "w"
    /\ curses_wins[zcurses_windows[2].win].live

\* C15: an addwin of a name that is not in the registry, in a started session,
\* either fails without a warning of its own (the library gave no handle) and
\* leaves the registry and the windows of the library as they were, the name
\* still not in the registry, or succeeds and appends the window, with a new
\* handle, as the last entry.
C15_AddwinAllocFails ==
    [][(/\ last'.cmd = "addwin"
        /\ last'.win \in Names
        /\ Present("stdscr")
        /\ ~Present(last'.win))
          => \/ /\ last'.ret = 1
                /\ last'.diag = <<>>
                /\ zcurses_windows' = zcurses_windows
                /\ curses_wins' = curses_wins
             \/ /\ last'.ret = 0
                /\ zcurses_windows' =
                       Append(zcurses_windows,
                              [win |-> Len(curses_wins) + 1, name |-> last'.win, flags |-> 0])
                /\ curses_wins' = Append(curses_wins, NewWINDOW)]_vars

\* an addwin of "w" has just failed in the library, "v" being in the registry
C15_Witness ==
    /\ last.cmd = "addwin" /\ last.win = "w" /\ last.ret = 1 /\ last.diag = <<>>
    /\ ~Present("w") /\ Present("v")

\* C16: an input on a window of the registry turns keypad translation on for
\* the window exactly when two parameter names were given.  When it succeeds,
\* it has set the first parameter named, or REPLY when none was, to the text
\* read, which is empty for a key code; with two names it has also set the
\* second, to a name for a key code and to the empty string for text; and it
\* has set no other parameter.
C16_Bindings ==
    [][(last'.cmd = "input" /\ Present(last'.win))
          => LET args == last'.args
                 both == Len(args) = 2
                 primary == IF args = <<>> THEN "REPLY" ELSE args[1]
                 written == {primary} \cup (IF both THEN {args[2]} ELSE {})
             IN /\ curses_wins'[HandleOf(last'.win)].keypad = both
                /\ last'.ret = 0
                      => /\ DOMAIN params' = DOMAIN params \cup written
                         /\ \A p \in DOMAIN params \ written : params'[p] = params[p]
                         /\ last'.keypadnum > 0 => params'[primary] = <<>>
                         /\ both => IF last'.keypadnum > 0
                                    THEN params'[args[2]] # ""
                                    ELSE params'[args[2]] = ""]_vars

\* REPLY and both parameters of an earlier input being set, an input with one
\* name has just read text and turned keypad translation off
C16_Witness ==
    /\ last.cmd = "input" /\ last.ret = 0 /\ last.args = <<"k">>
    /\ last.keypadnum = -1
    /\ DOMAIN params = {"REPLY", "k", "kn"}
    /\ params["k"] # <<>>
    /\ params["kn"] # ""
    /\ ~curses_wins[HandleOf("stdscr")].keypad

(***************************************************************************)
(* Properties of the order of the registry                                 *)
(***************************************************************************)
\* the windows of the library that were made and not released; the library
\* numbers its windows in the order of their making
LiveHandles == {h \in 1..Len(curses_wins) : curses_wins[h].live}
\* the k-th of a set of handles, in the order of their making
Kth(S, k) == CHOOSE h \in S : Cardinality({g \in S : g < h}) = k - 1
\* the name under which the registry holds the handle h
NameOfHandle(h) ==
    zcurses_windows[CHOOSE i \in 1..Len(zcurses_windows) : zcurses_windows[i].win = h].name
\* the names of the live windows in the order of their making
CreationOrder ==
    [k \in 1..Cardinality(LiveHandles) |-> NameOfHandle(Kth(LiveHandles, k))]

\* C17: the registry holds each live window once, and a read of the list of
\* window names gives the names of the live windows in the order of their
\* making; a window made is appended as the last entry, and a window destroyed
\* leaves the list without its entry, the others in their order.
C17_CreationOrder ==
    [][/\ last'.cmd = "zcurses_windows"
              => /\ \A h \in LiveHandles :
                       Cardinality({i \in 1..Len(zcurses_windows) :
                                       zcurses_windows[i].win = h}) = 1
                 /\ Len(last'.args) = Cardinality(LiveHandles)
                 /\ \A k \in 1..Len(last'.args) : last'.args[k] = CreationOrder[k]
       /\ (last'.cmd \in {"init", "addwin"} /\ Len(zcurses_windows') > Len(zcurses_windows))
              => /\ Len(zcurses_windows') = Len(zcurses_windows) + 1
                 /\ SubSeq(zcurses_windows', 1, Len(zcurses_windows)) = zcurses_windows
       /\ (last'.cmd = "delwin" /\ last'.ret = 0)
              => \E i \in 1..Len(zcurses_windows) :
                    /\ zcurses_windows[i].name = last'.win
                    /\ zcurses_windows' = Without(zcurses_windows, i)]_vars

\* "v", made second of three windows and destroyed, was made again: the list
\* read has it last
C17_Witness ==
    /\ last.cmd = "zcurses_windows"
    /\ last.args = <<"stdscr", "w", "v">>
    /\ ~curses_wins[2].live
    /\ Len(curses_wins) = 4

(***************************************************************************)
(* Properties of the release of the handles                                *)
(***************************************************************************)
\* the handles the entries of a registry hold
HandlesIn(list) == {list[i].win : i \in 1..Len(list)}

\* no handle is released while its entry stays in the registry, and a handle
\* released is in no entry, so that no later release reaches it
C18_NoEarlyNoSecondRelease ==
    [][/\ \A h \in HandlesIn(zcurses_windows') : curses_wins'[h].live
       /\ \A h \in 1..Len(curses_wins) :
             ~curses_wins[h].live
                 => ~curses_wins'[h].live /\ h \notin HandlesIn(zcurses_windows')]_vars

\* C18: each handle is released exactly once, on destruction: never while its
\* entry stays in the registry, never again after a release, and when cleanup_
\* has run every handle that was made, the permanent window's too, is released.
C18_ReleasedOnce ==
    [][/\ \A h \in HandlesIn(zcurses_windows') : curses_wins'[h].live
       /\ \A h \in 1..Len(curses_wins) :
             ~curses_wins[h].live
                 => ~curses_wins'[h].live /\ h \notin HandlesIn(zcurses_windows')
       /\ last'.cmd = "cleanup_"
             => \A h \in 1..Len(curses_wins') : ~curses_wins'[h].live]_vars

(***************************************************************************)
(* Properties of the end of the bypass phase                               *)
(***************************************************************************)
\* the command of this step is `attr' with one color token, and it stored no
\* key in the cache
NothingStored ==
    /\ OneTokenAttr /\ IsColorToken(last'.args[1])
    /\ DOMAIN cache' \subseteq DOMAIN cache

\* C19 as stated: zc_color_phase leaves 1 only in a step that stores a key in
\* the cache; a first color request that stores nothing leaves the phase at 1.
C19_ClearedOnlyBySuccess ==
    [][/\ (zc_color_phase = 1 /\ zc_color_phase' # 1)
              => \E k \in DOMAIN cache' : k \notin DOMAIN cache
       /\ (zc_color_phase = 1 /\ NothingStored) => zc_color_phase' = 1]_vars

\* C19: zc_color_phase leaves 1 in the first `attr' with a color token and in
\* no other step, whether or not a key is stored: after a first color request
\* that fails (unknown color, no pair left, pair refused by the library) and
\* stores nothing the phase is 2, the cache is still empty, and the pair counter
\* has advanced unless a color was unknown.
C19_ClearedByFirstRequest ==
    [][/\ (zc_color_phase = 1 /\ zc_color_phase' # 1)
              => OneTokenAttr /\ IsColorToken(last'.args[1])
       /\ (zc_color_phase = 1 /\ NothingStored)
              => /\ zc_color_phase' = 2
                 /\ last'.ret = 1
                 /\ cache' = <<>>
                 /\ next_cp' = IF ValidKey(last'.args[1]) THEN next_cp + 1 ELSE next_cp]_vars

\* the first color request of the session named an unknown color: nothing is
\* stored, no pair is counted, and the phase is 2
C19_Witness ==
    /\ zc_color_phase = 2 /\ next_cp = 0 /\ cache = <<>>
    /\ ~zcurses_colorpairs.null
    /\ last.cmd = "attr" /\ last.ret = 1 /\ Len(last.args) = 1
    /\ IsColorToken(last.args[1]) /\ ~ValidKey(last.args[1])
    /\ Len(last.diag) = 1

(***************************************************************************)
(* Properties of a color token with an unknown color                       *)
(***************************************************************************)
\* the command of this step is `attr' with one token fg/bg of which a side is
\* no color of the table
UnknownColorAttr ==
    /\ OneTokenAttr /\ Len(last'.args[1]) = 3 /\ last'.args[1][2] = "/"
    /\ ~ValidKey(last'.args[1])

\* one report for each side that is no color of the table, foreground first
UnknownSides(k) ==
    (IF k[1] \notin DOMAIN ColorNumber THEN <<"foreground color not known">> ELSE <<>>)
    \o (IF k[3] \notin DOMAIN ColorNumber THEN <<"background color not known">> ELSE <<>>)

\* what C20 says of the step
FailsUnchanged ==
    /\ last'.ret = 1
    /\ last'.diag = UnknownSides(last'.args[1])
    /\ next_cp' = next_cp
    /\ cache' = cache
    /\ curses_pairs' = curses_pairs
    /\ curses_wins'[HandleOf(last'.win)].pair = curses_wins[HandleOf(last'.win)].pair

\* in a session with color a token with an unknown color fails unchanged
UnknownColorWithColor ==
    [][(UnknownColorAttr /\ ~zcurses_colorpairs.null) => FailsUnchanged]_vars

\* C20: a color token of which the foreground or the background is no color of
\* the table fails, whatever the state of the cache, with one report for each
\* unknown side; the pair counter, the cache, the pairs of the library and the
\* pair of the window are as before.
C20_UnknownColor ==
    [][UnknownColorAttr => FailsUnchanged]_vars

(***************************************************************************)
(* Properties of the scroll flag                                           *)
(***************************************************************************)
\* in the registry and the library given, every entry has ZCWF_SCROLL exactly
\* when the library scrolls its window
ScrollMirrored(list, wins) ==
    \A i \in 1..Len(list) : HasFlag(list[i].flags, ZCWF_SCROLL) = wins[list[i].win].scroll

\* the command of this step is `scroll' on a window of the registry
ScrollOf(mode) == last'.cmd = "scroll" /\ Present(last'.win) /\ last'.args = <<mode>>

\* C21: after every step, for every window of the registry ZCWF_SCROLL is set
\* exactly when the library scrolls the window.  `on' and `off' that the library
\* accepts set and clear both; `on' and `off' that the library refuses, and a
\* mode that is neither nor an integer, fail and leave the registry and the
\* library as they were; a window just made has both off.
C21_ScrollMirror ==
    [][/\ ScrollMirrored(zcurses_windows', curses_wins')
       /\ \A m \in {<<"o", "n">>, <<"o", "f", "f">>} :
             ScrollOf(m)
                 => IF last'.ret = 0
                    THEN /\ curses_wins'[HandleOf(last'.win)].scroll = (m = <<"o", "n">>)
                         /\ \A i \in 1..Len(zcurses_windows') :
                               zcurses_windows'[i].name = last'.win
                                  => HasFlag(zcurses_windows'[i].flags, ZCWF_SCROLL)
                                        = (m = <<"o", "n">>)
                    ELSE zcurses_windows' = zcurses_windows /\ curses_wins' = curses_wins
       /\ (last'.cmd = "scroll" /\ Present(last'.win) /\ last'.diag # <<>>)
             => /\ last'.ret = 1
                /\ zcurses_windows' = zcurses_windows /\ curses_wins' = curses_wins
       /\ (last'.cmd \in {"init", "addwin"} /\ Len(zcurses_windows') > Len(zcurses_windows))
             => LET w == zcurses_windows'[Len(zcurses_windows')]
                IN ~HasFlag(w.flags, ZCWF_SCROLL) /\ ~curses_wins'[w.win].scroll]_vars

\* a window that scrolled has just been set not to scroll, and another window
\* of the registry still scrolls
C21_Witness ==
    /\ last.cmd = "scroll" /\ last.ret = 0 /\ last.args = <<<<"o", "f", "f">>>>
    /\ Present(last.win)
    /\ ~curses_wins[HandleOf(last.win)].scroll
    /\ \E i \in 1..Len(zcurses_windows) :
          /\ HasFlag(zcurses_windows[i].flags, ZCWF_SCROLL)
          /\ curses_wins[zcurses_windows[i].win].scroll

(***************************************************************************)
(* Properties of a character that cannot be converted                      *)
(***************************************************************************)
\* C22: in a build with wget_wch, an input that reads a character wctomb cannot
\* convert sets the first parameter named, or REPLY, to the two bytes Meta and
\* NUL ^ 32, and returns 0.
C22_Unconvertible ==
    [][\A a \in InputArgs, rd \in UnconvertibleReads :
          (have_wget_wch /\ ~BeforeInit /\ bin_zcurses_input("stdscr", a, rd, TRUE, TRUE))
              => /\ last'.ret = 0
                 /\ PrimaryName(a) \in DOMAIN params'
                 /\ params'[PrimaryName(a)] = <<Meta, Xor32(0)>>]_vars

\* an input that reads a character wctomb cannot convert returns 0 all the same
UnconvertibleSucceeds ==
    [][\A a \in InputArgs, rd \in UnconvertibleReads :
          (have_wget_wch /\ ~BeforeInit /\ bin_zcurses_input("stdscr", a, rd, TRUE, TRUE))
              => last'.ret = 0 /\ PrimaryName(a) \in DOMAIN params']_vars

(***************************************************************************)
(* Properties of the validation of a window name                           *)
(***************************************************************************)
\* the verbs that take a window
WindowVerbs ==
    {"delwin", "refresh", "move", "clear", "position", "char", "string", "border",
     "attr", "scroll", "input"}

\* what zcurses_validate_window is to give for the name n under the criteria c
Classified(n, c) ==
    LET v == zcurses_validate_window(n, c) IN
    IF n = "" THEN v = [node |-> 0, zc_errno |-> ZCURSES_EINVALID]
    ELSE IF HasFlag(c, ZCURSES_UNUSED) /\ Present(n)
    THEN v = [node |-> 0, zc_errno |-> ZCURSES_EDEFINED]
    ELSE IF HasFlag(c, ZCURSES_USED) /\ ~Present(n)
    THEN v = [node |-> 0, zc_errno |-> ZCURSES_EUNDEFINED]
    ELSE /\ v.zc_errno = 0
         /\ IF Present(n) THEN v.node # 0 /\ zcurses_windows[v.node].name = n
            ELSE v.node = 0

\* C23: for the name of every command, in the state the command is issued in and
\* under the criteria of its verb (ZCURSES_UNUSED for addwin, ZCURSES_USED for the
\* others), zcurses_validate_window gives `name invalid' for the empty name whatever
\* the criteria, else `already defined' for a name of the registry that must
\* not be there, else `undefined' for a name not in the registry that must be
\* there, and otherwise succeeds with zc_errno 0.  So every verb that takes a
\* window, issued after init with a name that is not in the registry, returns 1
\* with `window undefined' and zc_errno ZCURSES_EUNDEFINED, and leaves the
\* registry, the windows of the library, the colors and the parameters as they
\* were.
C23_Validation ==
    [][/\ Classified(last'.win, IF last'.cmd = "addwin" THEN ZCURSES_UNUSED ELSE ZCURSES_USED)
       /\ (last'.cmd \in WindowVerbs /\ Present("stdscr")
             /\ last'.win # "" /\ ~Present(last'.win))
             => /\ last'.ret = 1
                /\ last'.diag = Undefined
                /\ zc_errno' = ZCURSES_EUNDEFINED
                /\ UNCHANGED <<registry, colors, ttys, params>>]_vars

\* with a second window in the registry, an input on a name that is not in it
\* has just failed
C23_Witness ==
    /\ last.cmd = "input" /\ last.win = "v" /\ last.ret = 1 /\ last.diag = Undefined
    /\ zc_errno = ZCURSES_EUNDEFINED
    /\ Present("stdscr") /\ Present("w") /\ ~Present("v")

(***************************************************************************)
(* Properties of a color token in a session without color                  *)
(***************************************************************************)
\* the command of this step is `attr' on a window of the registry, in a session
\* whose init made no table of color pairs, with a color token in the batch
ColorTokenWithoutCache ==
    /\ last'.cmd = "attr" /\ Present(last'.win)
    /\ zcurses_colorpairs.null /\ zc_color_phase = 0
    /\ \E i \in 1..Len(last'.args) : IsColorToken(last'.args[i])

\* C24: in a session whose init made no table of color pairs, attr with a color
\* token returns 1 and the shell goes on; the table is still absent, the pair
\* counter and the pairs of the library are as before, and the attribute tokens
\* of the batch have taken effect.
C24_NoCache ==
    [][ColorTokenWithoutCache
          => LET h == HandleOf(last'.win) IN
             /\ module' = "booted"
             /\ last'.ret = 1
             /\ zcurses_colorpairs' = zcurses_colorpairs
             /\ next_cp' = next_cp /\ curses_pairs' = curses_pairs
             /\ zc_color_phase' = 0
             /\ curses_wins'[h].pair = curses_wins[h].pair
             /\ curses_wins'[h].attrs = AttrsAfter(curses_wins[h].attrs, last'.args)]_vars

\* in such a session nothing is stored whatever becomes of the shell: the table
\* stays absent, and no pair is counted or defined
NothingStoredWithoutCache ==
    [][ColorTokenWithoutCache
          => /\ zcurses_colorpairs' = zcurses_colorpairs
             /\ next_cp' = next_cp /\ curses_pairs' = curses_pairs
             /\ zc_color_phase' = 0]_vars

(***************************************************************************)
(* Properties of an allocation that fails                                  *)
(***************************************************************************)
\* the command of this step is `attr' with one key of known colors, in a
\* session with color, and the key is not in the cache afterwards: it was to
\* be allocated, and no pair was left or the library refused the pair
AllocationFailed ==
    /\ OneTokenAttr /\ ~zcurses_colorpairs.null
    /\ ValidKey(last'.args[1])
    /\ last'.args[1] \notin DOMAIN cache'

\* C25: an allocation that fails leaves the pair counter and the cache as they
\* were, so that the identifiers of the keys in the cache are 1, 2, 3, ...
\* without a gap.
C25_FailedAllocation ==
    [][/\ AllocationFailed => last'.ret = 1 /\ next_cp' = next_cp /\ cache' = cache
       /\ {cache'[k] : k \in DOMAIN cache'} = 1..Cardinality(DOMAIN cache')]_vars

\* an allocation that fails leaves the cache as it was and the pair counter one
\* higher
FailedAllocationCounts ==
    [][AllocationFailed => last'.ret = 1 /\ next_cp' = next_cp + 1 /\ cache' = cache]_vars

(***************************************************************************)
(* Properties of the pair counter as a short                               *)
(***************************************************************************)
\* C26: the cache maps different keys to different pairs, every pair of the
\* cache is in 1..COLOR_PAIRS-1, and no step defines anew a pair that the cache
\* maps a key to.
C26_DistinctPairs ==
    [][/\ \A k1, k2 \in DOMAIN cache' : k1 # k2 => cache'[k1] # cache'[k2]
       /\ \A k \in DOMAIN cache' : cache'[k] \in 1..(COLOR_PAIRS - 1)
       /\ \A k \in DOMAIN cache :
             cache[k] \in DOMAIN curses_pairs
                 => curses_pairs'[cache[k]] = curses_pairs[cache[k]]]_vars

====
